---------------------------- MODULE Spec2Model ----------------------------
(***************************************************************************)
(* Model of the mongoose query extension of src/src/index.ts: the filter   *)
(* expression compiler (dataTableFilter), the sort builder (dataTableSort),*)
(* the pagination calculator (dataTablePaginate) and the paginated read    *)
(* (dataTablePaginated).                                                   *)
(*                                                                         *)
(* JavaScript strings are sequences of one-character strings, so that the  *)
(* regular expressions, split, trim, toLowerCase and parseInt of the       *)
(* source are computed character by character.                             *)
(***************************************************************************)
EXTENDS Integers, Sequences, FiniteSets, TLC

VARIABLES
  pc,          \* position of the call: "idle", "reading", "returned", "threw"
  call,        \* the method called on the query and its arguments
  query,       \* the Query object: _conditions, sort/skip/limit options, calls made on it
  collection,  \* the documents of the model's collection, in storage order
  pending,     \* the store reads of dataTablePaginated issued and not yet executed
  result,      \* the PaginatedResult being assembled by dataTablePaginated
  dirty        \* a writer changed the collection between the first and the last read

vars == <<pc, call, query, collection, pending, result, dirty>>

(***************************************************************************)
(* Bounds of the model.                                                    *)
(***************************************************************************)
MaxFragments == 5   \* fragments concatenated into one filter string
MaxWords == 3       \* words in the argument list of a single clause
MaxSortFields == 3  \* entries of sortBy and of sortDesc
MaxNumChars == 2    \* characters of a textual page / itemsPerPage
MaxNumber == 3      \* largest numeric page / itemsPerPage
MaxDocs == 3        \* documents that may ever be in the collection

(***************************************************************************)
(* JavaScript strings.                                                     *)
(***************************************************************************)
RECURSIVE Concat(_)
Concat(ss) == IF ss = <<>> THEN <<>> ELSE Head(ss) \o Concat(Tail(ss))

RECURSIVE Join(_, _)
Join(ss, sep) ==
  IF ss = <<>> THEN <<>>
  ELSE IF Len(ss) = 1 THEN Head(ss)
  ELSE Head(ss) \o sep \o Join(Tail(ss), sep)

\* String.prototype.split(sep) for a one-character separator: always at
\* least one piece, the empty string included.
RECURSIVE Split(_, _)
Split(s, sep) ==
  IF \A k \in 1..Len(s) : s[k] # sep THEN <<s>>
  ELSE LET k == CHOOSE j \in 1..Len(s) :
                  s[j] = sep /\ \A m \in 1..(j - 1) : s[m] # sep
       IN <<SubSeq(s, 1, k - 1)>> \o Split(SubSeq(s, k + 1, Len(s)), sep)

IsSpace(c) == c = " "

\* String.prototype.trim
Trim(s) ==
  IF \A k \in 1..Len(s) : IsSpace(s[k]) THEN <<>>
  ELSE LET first == CHOOSE j \in 1..Len(s) :
                      ~IsSpace(s[j]) /\ \A m \in 1..(j - 1) : IsSpace(s[m])
           last == CHOOSE j \in 1..Len(s) :
                      ~IsSpace(s[j]) /\ \A m \in (j + 1)..Len(s) : IsSpace(s[m])
       IN SubSeq(s, first, last)

Upper == <<"A","B","C","D","E","F","G","H","I","J","K","L","M",
           "N","O","P","Q","R","S","T","U","V","W","X","Y","Z">>
Lower == <<"a","b","c","d","e","f","g","h","i","j","k","l","m",
           "n","o","p","q","r","s","t","u","v","w","x","y","z">>

\* String.prototype.toLowerCase
ToLowerCase(s) ==
  [k \in 1..Len(s) |->
     IF \E j \in 1..Len(Upper) : Upper[j] = s[k]
     THEN Lower[CHOOSE j \in 1..Len(Upper) : Upper[j] = s[k]]
     ELSE s[k]]

Digits == <<"0","1","2","3","4","5","6","7","8","9">>
IsDigit(c) == \E j \in 1..Len(Digits) : Digits[j] = c
DigitValue(c) == (CHOOSE j \in 1..Len(Digits) : Digits[j] = c) - 1

RECURSIVE DecimalValue(_)
DecimalValue(s) ==
  IF s = <<>> THEN 0
  ELSE 10 * DecimalValue(SubSeq(s, 1, Len(s) - 1)) + DigitValue(s[Len(s)])

(***************************************************************************)
(* dataTableFilter: the lexer /(([,;])|([^()]+\([^)]+\)))/g                *)
(***************************************************************************)
IsDelimiter(c) == c \in {",", ";"}
IsParen(c) == c \in {"(", ")"}

\* Length of the longest run of characters satisfying the class, from p.
RECURSIVE RunNotParen(_, _)
RunNotParen(s, p) ==
  IF p > Len(s) \/ IsParen(s[p]) THEN 0 ELSE 1 + RunNotParen(s, p + 1)

RECURSIVE RunNotClose(_, _)
RunNotClose(s, p) ==
  IF p > Len(s) \/ s[p] = ")" THEN 0 ELSE 1 + RunNotClose(s, p + 1)

\* Length of the match of [^()]+\([^)]+\) starting at p (0: no match).
\* Both classes exclude the character that must follow them, so the greedy
\* run is the only candidate.
ClauseMatchLen(s, p) ==
  LET n == RunNotParen(s, p)
      m == RunNotClose(s, p + n + 1)
  IN IF n >= 1 /\ p + n <= Len(s) /\ s[p + n] = "("
        /\ m >= 1 /\ p + n + 1 + m <= Len(s) /\ s[p + n + 1 + m] = ")"
     THEN n + 1 + m + 1
     ELSE 0

\* terms.match(matchFilters): every match, leftmost first; the first
\* alternative (a delimiter) is tried before the second (a clause).
RECURSIVE MatchFiltersFrom(_, _)
MatchFiltersFrom(s, p) ==
  IF p > Len(s) THEN <<>>
  ELSE IF IsDelimiter(s[p]) THEN <<SubSeq(s, p, p)>> \o MatchFiltersFrom(s, p + 1)
  ELSE LET len == ClauseMatchLen(s, p)
       IN IF len > 0
          THEN <<SubSeq(s, p, p + len - 1)>> \o MatchFiltersFrom(s, p + len)
          ELSE MatchFiltersFrom(s, p + 1)

matchFilters(terms) == MatchFiltersFrom(terms, 1)

\* filter.match(/^(.*)\((.*)\)$/): the first group is greedy, so the split
\* is at the last "(" before the final ")".
MatchParamsOk(filter) ==
  /\ Len(filter) >= 2
  /\ filter[Len(filter)] = ")"
  /\ \E k \in 1..(Len(filter) - 1) : filter[k] = "("

LastOpen(filter) ==
  CHOOSE k \in 1..(Len(filter) - 1) :
    filter[k] = "(" /\ \A m \in (k + 1)..(Len(filter) - 1) : filter[m] # "("

matchParams(filter) ==
  [field |-> SubSeq(filter, 1, LastOpen(filter) - 1),
   rawParams |-> SubSeq(filter, LastOpen(filter) + 1, Len(filter) - 1)]

(***************************************************************************)
(* dataTableFilter: the clause compiler                                    *)
(***************************************************************************)
S_match == <<"m","a","t","c","h">>
S_contains == <<"c","o","n","t","a","i","n","s">>
S_undefined == <<"u","n","d","e","f","i","n","e","d">>

allowedOperators ==
  { <<"l","t","e">>, <<"l","t">>, <<"g","t">>, <<"g","t","e">>,
    <<"i","n">>, <<"n","i","n">>, <<"e","q">>, <<"n","e">>,
    <<"e","x","i","s","t","s">>, <<"t","y","p","e">> }

\* Properties that the object literal `operations` inherits from
\* Object.prototype: operations[name] is truthy for each of them.  Called as
\* operator(field, ...params), with no receiver, the first three return a
\* value that is not null (Object(field), "[object Undefined]", false); the
\* others raise a TypeError (__proto__ is not a function, the rest cannot
\* convert an undefined receiver to an object).
InheritedReturning ==
  { <<"c","o","n","s","t","r","u","c","t","o","r">>,
    <<"t","o","S","t","r","i","n","g">>,
    <<"i","s","P","r","o","t","o","t","y","p","e","O","f">> }
InheritedThrowing ==
  { <<"_","_","p","r","o","t","o","_","_">>,
    <<"h","a","s","O","w","n","P","r","o","p","e","r","t","y">>,
    <<"v","a","l","u","e","O","f">> }

\* One element of `parsed`.  kind "string": {field: args[1]}; "RegExp":
\* {field: new RegExp(args[1], flags)}; "operator": {field: {op: args}} with
\* args an array, or args[1] alone when not `array`; "inherited": what a
\* member of Object.prototype returned; "null"; or the error raised.
Pred(kind, field, op, args, array, flags) ==
  [kind |-> kind, field |-> field, op |-> op, args |-> args, array |-> array,
   flags |-> flags]

Null == Pred("null", <<>>, <<>>, <<>>, FALSE, <<>>)
Throw(error) == Pred(error, <<>>, <<>>, <<>>, FALSE, <<>>)
IsThrow(v) == v.kind \in {"SyntaxError", "TypeError"}

\* new RegExp(source, flags) raises a SyntaxError when a quantifier has
\* nothing to repeat or a parenthesis is unbalanced.
RECURSIVE ParenDepthOk(_, _)
ParenDepthOk(source, depth) ==
  IF source = <<>> THEN depth = 0
  ELSE IF Head(source) = "(" THEN ParenDepthOk(Tail(source), depth + 1)
  ELSE IF Head(source) = ")" THEN depth > 0 /\ ParenDepthOk(Tail(source), depth - 1)
  ELSE ParenDepthOk(Tail(source), depth)

IsQuantifier(c) == c \in {"*", "+", "?"}
IsAtom(c) == ~IsQuantifier(c) /\ c \notin {"^", "$", "(", "|"}

\* (sources without \ [ ] { }, which the model's alphabet does not hold)
RegExpSyntaxOk(source) ==
  /\ \A k \in 1..Len(source) :
       IsQuantifier(source[k]) =>
         /\ k > 1
         /\ \/ IsAtom(source[k - 1])
            \/ /\ source[k] = "?"
               /\ IsQuantifier(source[k - 1])
               /\ k > 2
               /\ IsAtom(source[k - 2])
  /\ ParenDepthOk(source, 0)

RegExp(field, source, flags) ==
  IF RegExpSyntaxOk(source)
  THEN Pred("RegExp", field, <<>>, <<source>>, FALSE, flags)
  ELSE Throw("SyntaxError")

\* operations.match(field, value, flags = ''), and the same without the
\* anchors.
matchUnanchored(field, rest) ==
  LET value == IF Len(rest) >= 1 THEN rest[1] ELSE S_undefined
      flags == IF Len(rest) >= 2 THEN rest[2] ELSE <<>>
  IN IF flags = <<"i">>
     THEN RegExp(field, value, <<"i">>)
     ELSE Pred("string", field, <<>>, <<value>>, FALSE, <<>>)

match(field, rest) ==
  LET value == IF Len(rest) >= 1 THEN rest[1] ELSE S_undefined
      flags == IF Len(rest) >= 2 THEN rest[2] ELSE <<>>
  IN IF flags = <<"i">>
     THEN RegExp(field, <<"^">> \o value \o <<"$">>, <<"i">>)
     ELSE Pred("string", field, <<>>, <<value>>, FALSE, <<>>)

\* operations.contains(field, value, flags = '')
contains(field, rest) ==
  LET value == IF Len(rest) >= 1 THEN rest[1] ELSE S_undefined
      flags == IF Len(rest) >= 2 THEN rest[2] ELSE <<>>
  IN RegExp(field, value, IF flags = <<"i">> THEN <<"i", "g">> ELSE <<"g">>)

\* The last .map of `parsed`: one [operation, ...params] list to a field
\* predicate, null, or an exception.
CompileParams(field, params) ==
  LET operation == Head(params)
      rest == Tail(params)
  IN IF operation = <<>> THEN Null
     ELSE IF operation = S_match THEN match(field, rest)
     ELSE IF operation = S_contains THEN contains(field, rest)
     ELSE IF operation \in InheritedReturning
       THEN Pred("inherited", field, operation, <<>>, FALSE, <<>>)
     ELSE IF operation \in InheritedThrowing THEN Throw("TypeError")
     ELSE IF operation \notin allowedOperators THEN Null
     ELSE Pred("operator", field, <<"$">> \o operation,
               IF Len(rest) > 1 THEN rest ELSE <<rest[1]>>, Len(rest) > 1, <<>>)

\* rawParams.split(',').map(split(':')).map(trim).map(default to match)
ParamLists(rawParams) ==
  LET byComma == Split(rawParams, ",")
      byColon == [k \in 1..Len(byComma) |-> Split(byComma[k], ":")]
      trimmed == [k \in 1..Len(byColon) |->
                    [j \in 1..Len(byColon[k]) |-> Trim(byColon[k][j])]]
  IN [k \in 1..Len(trimmed) |->
        IF Len(trimmed[k]) <= 1 THEN <<S_match, trimmed[k][1]>> ELSE trimmed[k]]

\* The callback of and.map: the predicates of one filter token, nulls kept
\* (an exception is carried as an element until the call is assembled).
CompileFilter(filter) ==
  IF ~MatchParamsOk(filter) THEN <<>>
  ELSE LET mr == matchParams(filter)
           lists == ParamLists(mr.rawParams)
       IN [k \in 1..Len(lists) |-> CompileParams(mr.field, lists[k])]

(***************************************************************************)
(* dataTableFilter: the parser and the assembler                           *)
(***************************************************************************)
\* The loop `for (i = 0; i < filters.length; i += 2)`: filters[i] is taken
\* as a clause and filters[i - 1] as the delimiter before it.  (Sequences
\* are 1-based: filters[i] of the source is filters[i + 1] here.)
FlushOnComma(delimiter) == delimiter = <<",">>

Flushes(delimiter) == delimiter = <<";">>

RECURSIVE BlocksLoop(_, _, _, _)
BlocksLoop(filters, i, orBlocks, andBlocks) ==
  IF i >= Len(filters)
  THEN IF Len(andBlocks) > 0 THEN Append(orBlocks, andBlocks) ELSE orBlocks
  ELSE LET flush == i >= 1 /\ Flushes(filters[i])
           filter == filters[i + 1]
       IN BlocksLoop(filters, i + 2,
                     IF flush THEN Append(orBlocks, andBlocks) ELSE orBlocks,
                     IF flush THEN <<filter>> ELSE Append(andBlocks, filter))

OrBlocks(filters) == BlocksLoop(filters, 0, <<>>, <<>>)

RECURSIVE SelectNotNull(_)
SelectNotNull(parsed) ==
  IF parsed = <<>> THEN <<>>
  ELSE IF Head(parsed).kind = "null" THEN SelectNotNull(Tail(parsed))
  ELSE <<Head(parsed)>> \o SelectNotNull(Tail(parsed))

\* and.map(...).reduce((acc, cur) => [...acc, ...cur], [])
RECURSIVE AndOf(_)
AndOf(and) ==
  IF and = <<>> THEN <<>>
  ELSE SelectNotNull(CompileFilter(Head(and))) \o AndOf(Tail(and))

RECURSIVE SelectNonEmpty(_)
SelectNonEmpty(blocks) ==
  IF blocks = <<>> THEN <<>>
  ELSE IF Head(blocks) = <<>> THEN SelectNonEmpty(Tail(blocks))
  ELSE <<Head(blocks)>> \o SelectNonEmpty(Tail(blocks))

\* The $or list: one $and per block, the empty ones dropped.
OrOf(orBlocks) ==
  SelectNonEmpty([k \in 1..Len(orBlocks) |-> AndOf(orBlocks[k])])

Thrown(or) ==
  {e \in UNION {{or[k][j] : j \in 1..Len(or[k])} : k \in 1..Len(or)} : IsThrow(e)}

\* What one call of dataTableFilter does: "this" (the query is returned as
\* it is), "find" (this.find({$or}) is returned) or "throw".
dataTableFilter(terms) ==
  IF terms = <<>> THEN [does |-> "this", or |-> <<>>]
  ELSE LET filters == matchFilters(terms)
       IN IF filters = <<>> THEN [does |-> "this", or |-> <<>>]
          ELSE LET or == OrOf(OrBlocks(filters))
               IN IF Thrown(or) # {} THEN [does |-> "throw", or |-> <<>>]
                  ELSE IF or = <<>> THEN [does |-> "this", or |-> <<>>]
                  ELSE [does |-> "find", or |-> or]

(***************************************************************************)
(* The query object                                                        *)
(***************************************************************************)
NaN == [nan |-> TRUE, n |-> 0]
Num(n) == [nan |-> FALSE, n |-> n]

\* A query as the model constructs it: no condition, no option, no call.
NewQuery ==
  [conditions |-> <<>>, sort |-> <<>>, skip |-> Num(0), limit |-> Num(0),
   calls |-> <<>>]

\* Query.find(conditions) on a query without earlier conditions.
find(q, or) ==
  [q EXCEPT !.conditions = or, !.calls = Append(@, "find")]

NoCall == [fn |-> "none"]
NoResult == [data |-> <<>>, resultCount |-> 0, totalCount |-> 0]

(***************************************************************************)
(* Inputs of dataTableFilter.  A filter string is the concatenation of     *)
(* fragments: clauses field(op:v1:v2), delimiters and stray characters.    *)
(***************************************************************************)
Clause(field, op, vals) == [kind |-> "clause", field |-> field, op |-> op, vals |-> vals]
Raw(text) == [kind |-> "raw", field |-> <<>>, op |-> <<>>, vals |-> <<text>>]

Render(f) ==
  IF f.kind = "raw" THEN f.vals[1]
  ELSE f.field \o <<"(">> \o Join(<<f.op>> \o f.vals, <<":">>) \o <<")">>

RenderAll(frags) == Concat([k \in 1..Len(frags) |-> Render(frags[k])])

S_eq == <<"e","q">>
S_in == <<"i","n">>
S_zz == <<"z","z">>
S_toString == <<"t","o","S","t","r","i","n","g">>
S_proto == <<"_","_","p","r","o","t","o","_","_">>

ClauseEq == Clause(<<"a">>, S_eq, <<<<"1">>>>)
ClauseIn == Clause(<<"b">>, S_in, <<<<"1">>, <<"2">>>>)
ClauseMatchI == Clause(<<"c">>, S_match, <<<<"B">>, <<"i">>>>)
ClauseUnknown == Clause(<<"d">>, S_zz, <<<<"1">>>>)
Comma == Raw(<<",">>)
Semicolon == Raw(<<";">>)

Fragments ==
  {ClauseEq, ClauseIn, ClauseMatchI, ClauseUnknown, Comma, Semicolon}

SeqsUpTo(S, n) == UNION {[1..k -> S] : k \in 0..n}

FilterInputs == SeqsUpTo(Fragments, MaxFragments)

\* Inputs of the single-clause specification: field(w1 s1 w2 s2 w3), the
\* words separated by ":" or ",".
Words ==
  { S_eq, S_match, S_contains, S_toString, S_proto, S_zz,
    <<"B">>, <<"i">>, <<"*">>, <<" ", "b">>, <<>> }
Separators == {<<":">>, <<",">>}
Fields == {<<"n","a","m","e">>}

RECURSIVE Interleave(_, _)
Interleave(words, seps) ==
  IF Len(words) <= 1 THEN Concat(words)
  ELSE Head(words) \o Head(seps) \o Interleave(Tail(words), Tail(seps))

ClauseText(field, words, seps) ==
  field \o <<"(">> \o Interleave(words, seps) \o <<")">>

(***************************************************************************)
(* The state after construction, and the call of dataTableFilter.          *)
(***************************************************************************)
Init ==
  /\ pc = "idle"
  /\ call = NoCall
  /\ query = NewQuery
  /\ collection = <<>>
  /\ pending = {}
  /\ result = NoResult
  /\ dirty = FALSE

\* query.dataTableFilter(terms), the whole handler.
ApplyFilter(terms) ==
  LET r == dataTableFilter(terms)
  IN /\ pc' = IF r.does = "throw" THEN "threw" ELSE "returned"
     /\ query' = IF r.does = "find" THEN find(query, r.or) ELSE query
     /\ UNCHANGED <<collection, pending, result, dirty>>

FilterFragments ==
  /\ pc = "idle"
  /\ \E frags \in FilterInputs :
       /\ call' = [fn |-> "dataTableFilter", frags |-> frags, terms |-> RenderAll(frags)]
       /\ ApplyFilter(RenderAll(frags))

FilterClause ==
  /\ pc = "idle"
  /\ \E field \in Fields, n \in 1..MaxWords :
       \E words \in [1..n -> Words], seps \in [1..(n - 1) -> Separators] :
         /\ call' = [fn |-> "dataTableFilter", field |-> field, words |-> words,
                     seps |-> seps, terms |-> ClauseText(field, words, seps)]
         /\ ApplyFilter(ClauseText(field, words, seps))

\* Filter strings assembled from whole clauses and delimiters.
SpecFilter == Init /\ [][FilterFragments]_vars

\* Filter strings holding one clause, assembled from words.
SpecClause == Init /\ [][FilterClause]_vars

(***************************************************************************)
(* Claims about dataTableFilter                                            *)
(***************************************************************************)
\* The twelve operation names of the filter language.
OperationNames == allowedOperators \cup {S_match, S_contains}

Filtered == pc # "idle" /\ call.fn = "dataTableFilter"

\* The arguments of the clause called in SpecClause, as the filter language
\* reads them: comma-separated, each a colon-separated list of trimmed pieces.
ArgsOf(words, seps) ==
  LET byComma == Split(Interleave(words, seps), ",")
  IN [k \in 1..Len(byComma) |->
        LET pieces == Split(byComma[k], ":")
        IN [j \in 1..Len(pieces) |-> Trim(pieces[j])]]

\* Every argument names an operation, and none of the twelve.
EveryArgUnknown(words, seps) ==
  \A k \in 1..Len(ArgsOf(words, seps)) :
    LET arg == ArgsOf(words, seps)[k]
    IN Len(arg) >= 2 /\ arg[1] \notin OperationNames

\* C1 (pass-through law): a filter string whose every clause is malformed or
\* uses an operation name outside the allowed set leaves the query as it
\* was: the call returns, the conditions are unchanged and no find() is
\* issued.  (A clause is malformed when its argument list is empty.)
C1_PassThrough ==
  (Filtered /\ (Interleave(call.words, call.seps) = <<>>
                  \/ EveryArgUnknown(call.words, call.seps)))
    => (pc = "returned" /\ query = NewQuery)

\* C3 (operation dispatch): a single-argument clause field(op:v1[:v2...])
\* compiles to {field: {$op: v1}} or {field: {$op: [v1..vn]}} when op is one
\* of the ten comparison operators, and to nothing when op is outside the
\* twelve names.
C3_Dispatch ==
  (Filtered /\ Len(call.words) >= 2 /\ (\A k \in DOMAIN call.seps : call.seps[k] = <<":">>))
    => LET op == Trim(call.words[1])
           vals == [k \in 1..(Len(call.words) - 1) |-> Trim(call.words[k + 1])]
       IN /\ op \in allowedOperators =>
               /\ pc = "returned"
               /\ query.conditions =
                    <<<<Pred("operator", call.field, <<"$">> \o op, vals,
                             Len(vals) > 1, <<>>)>>>>
          /\ op \notin OperationNames =>
               /\ pc = "returned"
               /\ query = NewQuery

\* C4: dataTableFilter never throws, whatever the filter text.
C4_NeverThrows == Filtered => pc = "returned"

\* A value the amended C5 covers: no surrounding whitespace, and ^V$ is a
\* valid pattern.
PlainValue(v) == Trim(v) = v /\ RegExpSyntaxOk(<<"^">> \o v \o <<"$">>)

IsMatchCall(seps) ==
  /\ Filtered
  /\ Len(call.words) = Len(seps) + 1
  /\ call.seps = seps
  /\ call.words[1] = S_match
  /\ Len(seps) = 2 => call.words[3] = <<"i">>

ValidClause(f) == f.kind = "clause" /\ f.op \in OperationNames

WellFormed(frags) ==
  /\ Len(frags) % 2 = 1
  /\ \A k \in 1..Len(frags) :
       IF k % 2 = 1 THEN ValidClause(frags[k]) ELSE frags[k] \in {Comma, Semicolon}

\* The predicate a valid clause fragment stands for.
ExpectedClause(f) ==
  IF f.op = S_match
  THEN IF Len(f.vals) >= 2 /\ f.vals[2] = <<"i">>
       THEN Pred("RegExp", f.field, <<>>, <<<<"^">> \o f.vals[1] \o <<"$">>>>, FALSE, <<"i">>)
       ELSE Pred("string", f.field, <<>>, <<f.vals[1]>>, FALSE, <<>>)
  ELSE Pred("operator", f.field, <<"$">> \o f.op, f.vals, Len(f.vals) > 1, <<>>)

\* The ";"-separated segments of a well-formed fragment list, each the list
\* of its clauses' predicates, in textual order.
RECURSIVE ExpectedOr(_, _)
ExpectedOr(frags, segment) ==
  IF frags = <<>> THEN <<segment>>
  ELSE IF Head(frags) = Semicolon THEN <<segment>> \o ExpectedOr(Tail(frags), <<>>)
  ELSE IF Head(frags) = Comma THEN ExpectedOr(Tail(frags), segment)
  ELSE ExpectedOr(Tail(frags), Append(segment, ExpectedClause(Head(frags))))

\* C2 (AND/OR grouping): a filter string of valid clauses separated by single
\* "," or ";" compiles to one $or list whose k-th element is the $and of the
\* clauses of the k-th ";"-separated segment, in textual order.
C2_Grouping ==
  (Filtered /\ WellFormed(call.frags))
    => /\ pc = "returned"
       /\ query.calls = <<"find">>
       /\ query.conditions = ExpectedOr(call.frags, <<>>)

\* "a(eq:1),b(in:1:2);c(match:B:i)" was compiled to (a AND b) OR (c).
C2_Witness ==
  /\ Filtered
  /\ call.frags = <<ClauseEq, Comma, ClauseIn, Semicolon, ClauseMatchI>>
  /\ pc = "returned"
  /\ Len(query.conditions) = 2
  /\ Len(query.conditions[1]) = 2
  /\ Len(query.conditions[2]) = 1

\* C9: a leading delimiter has no effect: "," + F and ";" + F compile to
\* what F compiles to.
C9_LeadingDelimiter ==
  Filtered =>
    \A d \in {<<",">>, <<";">>} :
      LET r == dataTableFilter(d \o call.terms)
      IN /\ (r.does = "throw") = (pc = "threw")
         /\ (IF r.does = "find" THEN find(NewQuery, r.or) ELSE NewQuery) = query

(***************************************************************************)
(* dataTableSort                                                           *)
(***************************************************************************)
\* A JavaScript object is the list of its own properties in the order
\* Object.keys gives them: the array-index keys first, ascending, then the
\* other keys in the order they were created.  An array index is the
\* canonical text of an integer below 2^32 - 1 (here: of up to nine digits).
IsArrayIndex(key) ==
  /\ Len(key) \in 1..9
  /\ \A k \in 1..Len(key) : IsDigit(key[k])
  /\ Len(key) = 1 \/ key[1] # "0"

HasKey(obj, key) == \E k \in 1..Len(obj) : obj[k].key = key

\* Where a new property is created: an array index goes before the first
\* property that is no array index or a greater one.
InsertAt(obj, key) ==
  IF IsArrayIndex(key)
  THEN Cardinality({k \in 1..Len(obj) :
                      IsArrayIndex(obj[k].key)
                      /\ DecimalValue(obj[k].key) < DecimalValue(key)}) + 1
  ELSE Len(obj) + 1

\* ({...acc, [key]: value})
SetProperty(acc, key, value) ==
  IF HasKey(acc, key)
  THEN [k \in 1..Len(acc) |->
          IF acc[k].key = key THEN [key |-> key, value |-> value] ELSE acc[k]]
  ELSE LET at == InsertAt(acc, key)
       IN SubSeq(acc, 1, at - 1) \o <<[key |-> key, value |-> value]>>
            \o SubSeq(acc, at, Len(acc))

S_true == <<"t","r","u","e">>

\* sortBy.reduce((acc, key, index) => ({...acc, [key]: sortDesc[index] ? -1 : 1}), {})
RECURSIVE SortReduce(_, _, _, _)
SortReduce(acc, sortBy, sortDesc, index) ==
  IF index > Len(sortBy) THEN acc
  ELSE SortReduce(
         SetProperty(acc, sortBy[index],
                     IF index <= Len(sortDesc) /\ sortDesc[index] THEN -1 ELSE 1),
         sortBy, sortDesc, index + 1)

\* The sort object dataTableSort builds (_sortBy is not empty).
SortObject(_sortBy, _sortDesc) ==
  LET sortBy == Split(_sortBy, ",")
      tokens == Split(_sortDesc, ",")
      sortDesc == [k \in 1..Len(tokens) |-> ToLowerCase(tokens[k]) = S_true]
  IN SortReduce(<<>>, sortBy, sortDesc, 1)

\* Query.sort(object) on a query without an earlier sort.
sort(q, object) == [q EXCEPT !.sort = object, !.calls = Append(@, "sort")]

SortNames == {<<"a">>, <<"b">>, <<"1">>}
SortTokens == {S_true, <<"T","r","u","e">>, <<"f","a","l","s","e">>}

\* query.dataTableSort(_sortBy, _sortDesc), the whole handler.
dataTableSort ==
  /\ pc = "idle"
  /\ \E fields \in SeqsUpTo(SortNames, MaxSortFields),
        dirs \in SeqsUpTo(SortTokens, MaxSortFields) :
       LET _sortBy == Join(fields, <<",">>)
           _sortDesc == Join(dirs, <<",">>)
       IN /\ call' = [fn |-> "dataTableSort", fields |-> fields, dirs |-> dirs,
                      sortBy |-> _sortBy, sortDesc |-> _sortDesc]
          /\ query' = IF Len(_sortBy) = 0 THEN query
                      ELSE sort(query, SortObject(_sortBy, _sortDesc))
          /\ pc' = "returned"
          /\ UNCHANGED <<collection, pending, result, dirty>>

SpecSort == Init /\ [][dataTableSort]_vars

NoRepeat(fields) ==
  \A i, j \in 1..Len(fields) : fields[i] = fields[j] => i = j

\* C8 (sort positional pairing): the sort object lists the fields in sortBy
\* order and maps the i-th field to descending (-1) exactly when the i-th
\* direction token is "true" in any case, else to ascending (1); an empty
\* sortBy applies no sort.  (Stated for the field lists that name no field
\* twice, which a mapping from field to direction can hold.)
C8_SortPairing ==
  (pc # "idle" /\ call.fn = "dataTableSort" /\ NoRepeat(call.fields)) =>
    IF call.fields = <<>> THEN query = NewQuery
    ELSE /\ query.calls = <<"sort">>
         /\ query.sort =
              [i \in 1..Len(call.fields) |->
                 [key |-> call.fields[i],
                  value |-> IF i <= Len(call.dirs)
                               /\ ToLowerCase(call.dirs[i]) = S_true
                            THEN -1 ELSE 1]]

(***************************************************************************)
(* dataTablePaginate                                                       *)
(***************************************************************************)
defaultItemsPerPage == 10

\* The values an argument may have.
Undefined == [t |-> "undefined", n |-> 0, s |-> <<>>]
NullArg == [t |-> "null", n |-> 0, s |-> <<>>]
Number(n) == [t |-> "number", n |-> n, s |-> <<>>]
Text(s) == [t |-> "string", n |-> 0, s |-> s]

\* JavaScript numbers: an integer or NaN.
IsNegative(x) == ~x.nan /\ x.n < 0
Minus(x, y) == IF x.nan \/ y.nan THEN NaN ELSE Num(x.n - y.n)
Times(x, y) == IF x.nan \/ y.nan THEN NaN ELSE Num(x.n * y.n)

RECURSIVE RunDigits(_, _)
RunDigits(s, p) ==
  IF p > Len(s) \/ ~IsDigit(s[p]) THEN 0 ELSE 1 + RunDigits(s, p + 1)

RECURSIVE RunSpaces(_, _)
RunSpaces(s, p) ==
  IF p > Len(s) \/ ~IsSpace(s[p]) THEN 0 ELSE 1 + RunSpaces(s, p + 1)

\* Number.parseInt(s, 10): leading whitespace, a sign, the longest run of
\* digits; NaN when there is no digit.
parseInt(s) ==
  LET start == 1 + RunSpaces(s, 1)
      signed == start <= Len(s) /\ s[start] \in {"-", "+"}
      first == IF signed THEN start + 1 ELSE start
      n == RunDigits(s, first)
      magnitude == DecimalValue(SubSeq(s, first, first + n - 1))
  IN IF n = 0 THEN NaN
     ELSE IF signed /\ s[start] = "-" THEN Num(0 - magnitude) ELSE Num(magnitude)

\* A parameter's default value replaces undefined, and only undefined.
WithDefault(arg, default) == IF arg.t = "undefined" THEN default ELSE arg

\* typeof arg === 'string' ? Number.parseInt(arg, 10) : arg ?? fallback
Coerce(arg, fallback) ==
  IF arg.t = "string" THEN parseInt(arg.s)
  ELSE IF arg.t \in {"null", "undefined"} THEN Num(fallback)
  ELSE Num(arg.n)

\* The skip and limit dataTablePaginate(_page = 1, _itemsPerPage = 0) sets.
Paginate(p, ipp) ==
  LET _page == WithDefault(p, Number(1))
      _itemsPerPage == WithDefault(ipp, Number(0))
      page == Minus(Coerce(_page, 1), Num(1))
      itemsPerPage == Coerce(_itemsPerPage, defaultItemsPerPage)
      limit == IF IsNegative(itemsPerPage) THEN Num(0) ELSE itemsPerPage
      skip == Times(IF IsNegative(page) THEN Num(0) ELSE page, limit)
  IN [skip |-> skip, limit |-> limit]

\* this.skip(skip).limit(limit)
skipLimit(q, sl) ==
  [q EXCEPT !.skip = sl.skip, !.limit = sl.limit, !.calls = @ \o <<"skip", "limit">>]

NumChars == {"-", "0", "2", "x"}
PageArgs ==
  {Undefined, NullArg}
    \cup {Number(n) : n \in (-1)..MaxNumber}
    \cup {Text(s) : s \in SeqsUpTo(NumChars, MaxNumChars)}

\* query.dataTablePaginate(_page, _itemsPerPage), the whole handler.
dataTablePaginate ==
  /\ pc = "idle"
  /\ \E p \in PageArgs, ipp \in PageArgs :
       /\ call' = [fn |-> "dataTablePaginate", page |-> p, itemsPerPage |-> ipp]
       /\ query' = skipLimit(query, Paginate(p, ipp))
       /\ pc' = "returned"
       /\ UNCHANGED <<collection, pending, result, dirty>>

SpecPaginate == Init /\ [][dataTablePaginate]_vars

Max(a, b) == IF a >= b THEN a ELSE b

\* The text of a decimal integer: digits, after an optional minus sign.
IsNumericText(s) ==
  LET digits == IF Len(s) >= 1 /\ s[1] = "-" THEN Tail(s) ELSE s
  IN Len(digits) >= 1 /\ \A k \in 1..Len(digits) : IsDigit(digits[k])

TextValue(s) ==
  IF s[1] = "-" THEN 0 - DecimalValue(Tail(s)) ELSE DecimalValue(s)

Supplied(arg) == arg.t \in {"number", "string"}
IsNumeric(arg) == arg.t = "number" \/ (arg.t = "string" /\ IsNumericText(arg.s))
ValueOf(arg) == IF arg.t = "number" THEN arg.n ELSE TextValue(arg.s)

Paged == pc # "idle" /\ call.fn = "dataTablePaginate"

\* C6 (pagination arithmetic): for page and itemsPerPage given as a number or
\* as text, non-numeric text included, skip and limit are called with
\* non-negative integers; limit = max(itemsPerPage, 0) and
\* offset = max(page - 1, 0) * limit for numeric arguments.
C6_Arithmetic ==
  (Paged /\ Supplied(call.page) /\ Supplied(call.itemsPerPage)) =>
    /\ pc = "returned"
    /\ ~query.skip.nan /\ query.skip.n >= 0
    /\ ~query.limit.nan /\ query.limit.n >= 0
    /\ IsNumeric(call.itemsPerPage) =>
         query.limit.n = Max(ValueOf(call.itemsPerPage), 0)
    /\ (IsNumeric(call.itemsPerPage) /\ IsNumeric(call.page)) =>
         query.skip.n = Max(ValueOf(call.page) - 1, 0) * query.limit.n

\* C7 (pagination defaults): when itemsPerPage is not supplied the limit is
\* the configured default page size, and when page is not supplied it is 1
\* (offset 0).
C7_Defaults ==
  Paged =>
    /\ call.itemsPerPage.t = "undefined" => query.limit = Num(defaultItemsPerPage)
    /\ (call.page.t = "undefined" /\ IsNumeric(call.itemsPerPage)) =>
         query.skip = Num(0)

(***************************************************************************)
(* dataTablePaginated: the page fetch and the two counts are three reads   *)
(* of the store, executed in any order, while other clients insert and     *)
(* delete documents.                                                       *)
(***************************************************************************)
S_status == <<"s","t","a","t","u","s">>
S_active == <<"a","c","t","i","v","e">>
S_pending == <<"p","e","n","d","i","n","g">>

\* The documents the writers may insert: every second one is pending.
Doc(id) == [id |-> id, status |-> IF id % 2 = 0 THEN S_pending ELSE S_active]
Docs == {Doc(id) : id \in 1..MaxDocs}

\* The query the call is made on: status(active), compiled by dataTableFilter.
StatusActive == S_status \o <<"(">> \o S_active \o <<")">>
FilteredQuery == find(NewQuery, dataTableFilter(StatusActive).or)

\* The store's matching of a document against _conditions: an $or of $and of
\* equalities on a field (the only field of a document is status).
Satisfies(doc, pred) ==
  pred.kind = "string" /\ pred.field = S_status /\ pred.args[1] = doc.status

Matches(doc, conditions) ==
  \/ conditions = <<>>
  \/ \E k \in 1..Len(conditions) :
       \A j \in 1..Len(conditions[k]) : Satisfies(doc, conditions[k][j])

RECURSIVE SelectMatching(_, _)
SelectMatching(docs, conditions) ==
  IF docs = <<>> THEN <<>>
  ELSE IF Matches(Head(docs), conditions)
       THEN <<Head(docs)>> \o SelectMatching(Tail(docs), conditions)
       ELSE SelectMatching(Tail(docs), conditions)

Min(a, b) == IF a <= b THEN a ELSE b

\* The page a cursor with skip and limit yields (limit 0: no limit).
Page(docs, skip, limit) ==
  SubSeq(docs, skip + 1, IF limit = 0 THEN Len(docs) ELSE Min(Len(docs), skip + limit))

\* Executing the query: the documents matching _conditions, paged; and the
\* same that forgets the conditions.
FetchAll(docs, q) == Page(docs, q.skip.n, q.limit.n)

Fetch(docs, q) == Page(SelectMatching(docs, q.conditions), q.skip.n, q.limit.n)

\* model.countDocuments(conditions)
countDocuments(docs, conditions) == Len(SelectMatching(docs, conditions))

RECURSIVE Without(_, _)
Without(docs, doc) ==
  IF docs = <<>> THEN <<>>
  ELSE IF Head(docs) = doc THEN Tail(docs)
  ELSE <<Head(docs)>> \o Without(Tail(docs), doc)

Reads == {"data", "resultCount", "totalCount"}
PaginatedArgs == {Undefined, Number(1), Number(2)}

InitPaginated ==
  /\ pc = "idle"
  /\ call = NoCall
  /\ query \in {NewQuery, FilteredQuery}
  /\ collection = <<>>
  /\ pending = {}
  /\ result = NoResult
  /\ dirty = FALSE

\* A write lands between the first and the last read of the call.
BetweenReads == pc = "reading" /\ pending # {} /\ pending # Reads

\* Another client inserts a document.
Insert ==
  /\ pc \in {"idle", "reading"}
  /\ \E doc \in Docs :
       /\ \A k \in 1..Len(collection) : collection[k] # doc
       /\ collection' = Append(collection, doc)
  /\ dirty' = (dirty \/ BetweenReads)
  /\ UNCHANGED <<pc, call, query, pending, result>>

\* Another client deletes a document.
Delete ==
  /\ pc \in {"idle", "reading"}
  /\ \E k \in 1..Len(collection) : collection' = Without(collection, collection[k])
  /\ dirty' = (dirty \/ BetweenReads)
  /\ UNCHANGED <<pc, call, query, pending, result>>

\* query.dataTablePaginated(_page = 1, _itemsPerPage = 0) up to Promise.all:
\* dataTablePaginate sets skip and limit on the query, and the three reads
\* are issued.
dataTablePaginated ==
  /\ pc = "idle"
  /\ \E p \in PaginatedArgs, ipp \in PaginatedArgs :
       /\ call' = [fn |-> "dataTablePaginated", page |-> p, itemsPerPage |-> ipp]
       /\ query' = skipLimit(query,
                     Paginate(WithDefault(p, Number(1)), WithDefault(ipp, Number(0))))
  /\ pc' = "reading"
  /\ pending' = Reads
  /\ UNCHANGED <<collection, result, dirty>>

\* The store executes the paged query.
ReadData ==
  /\ pc = "reading" /\ "data" \in pending
  /\ result' = [result EXCEPT !.data = Fetch(collection, query)]
  /\ pending' = pending \ {"data"}
  /\ UNCHANGED <<pc, call, query, collection, dirty>>

\* The store executes countDocuments(this._conditions).
ReadResultCount ==
  /\ pc = "reading" /\ "resultCount" \in pending
  /\ result' = [result EXCEPT !.resultCount = countDocuments(collection, query.conditions)]
  /\ pending' = pending \ {"resultCount"}
  /\ UNCHANGED <<pc, call, query, collection, dirty>>

\* The store executes countDocuments().
ReadTotalCount ==
  /\ pc = "reading" /\ "totalCount" \in pending
  /\ result' = [result EXCEPT !.totalCount = countDocuments(collection, <<>>)]
  /\ pending' = pending \ {"totalCount"}
  /\ UNCHANGED <<pc, call, query, collection, dirty>>

\* Promise.all resolves and the PaginatedResult is returned.
Resolve ==
  /\ pc = "reading" /\ pending = {}
  /\ pc' = "returned"
  /\ UNCHANGED <<call, query, collection, pending, result, dirty>>

NextPaginated ==
  \/ Insert
  \/ Delete
  \/ dataTablePaginated
  \/ ReadData
  \/ ReadResultCount
  \/ ReadTotalCount
  \/ Resolve

SpecPaginated == InitPaginated /\ [][NextPaginated]_vars

Resolved == pc = "returned" /\ call.fn = "dataTablePaginated"

\* C10 as stated: with limit > 0, resultCount and totalCount are each at
\* least the number of documents in data, for every interleaving of the
\* three reads with the writers' inserts and deletes.
C10_CountsCoverData ==
  (Resolved /\ query.limit.n > 0) =>
    /\ result.resultCount >= Len(result.data)
    /\ result.totalCount >= Len(result.data)

\* C10 as amended: the same, for the executions in which no insert or delete
\* lands between the first and the last of the three reads.
C10_CountsCoverDataQuiet ==
  (Resolved /\ query.limit.n > 0 /\ ~dirty) =>
    /\ result.resultCount >= Len(result.data)
    /\ result.totalCount >= Len(result.data)

\* A call on the filtered query with limit 1 resolved, no write between its
\* reads: one document in data, two matching, three in the collection.
C10_Witness ==
  /\ Resolved
  /\ ~dirty
  /\ query.limit.n = 1
  /\ query.conditions # <<>>
  /\ Len(result.data) = 1
  /\ result.resultCount = 2
  /\ result.totalCount = 3

=============================================================================
